---- MODULE Spec2Model ----
(***************************************************************************)
(* Face-similarity search pipeline of the event photo backend:             *)
(* the POST /search_face handler of src/main.py together with log_action,  *)
(* get_current_user, the connection pool and delete_event, and the         *)
(* create_order and process_order_payment handlers of routers/orders.py.   *)
(*                                                                         *)
(* Numbers that are floats in the program (threshold, similarity, cosine   *)
(* distance) are kept in hundredths: 0.6 is 60, 1.0 is 100.  A float is a  *)
(* record [kind, val] so that NaN keeps its IEEE comparison behaviour.     *)
(***************************************************************************)
EXTENDS Integers, Sequences, FiniteSets, TLC

VARIABLES
    events,        \* rows of table events: the set of event_id values
    images,        \* rows of table images
    faces,         \* rows of table faces
    logs,          \* rows of table logs, in insertion order
    published,     \* log_id of every message the SNS topic accepted
    nextUuid,      \* source of uuid.uuid4() values
    AI_PROCESS_URL,\* the configured embedding-service endpoint ("" if unset)
    sns_enabled,   \* sns_client and aws_config['topic_arn'] are both set
    reqs,          \* the search_face requests, one record per request
    dels,          \* the delete_event requests, one record per request
    pool,          \* the asyncpg pool: its max_size and the connections that
                   \* search_face requests and their dependencies hold
    shop,          \* tables orders and cart_sessions, and what the payment
                   \* service was asked to do
    pays,          \* the process_order_payment requests
    creates        \* the create_order requests

vars == <<events, images, faces, logs, published, nextUuid,
          AI_PROCESS_URL, sns_enabled, reqs, dels, pool, shop, pays, creates>>

\* the state search_face neither reads for writing nor writes
elsewhere == <<AI_PROCESS_URL, sns_enabled, dels, shop, pays, creates>>

-----------------------------------------------------------------------------
(* Bounds and program constants *)

\* LIMIT 50 of the similarity query
MaxResults == 50

\* threshold: float = Form(0.6)
DefaultThreshold == 60

\* asyncpg.create_pool(..., max_size=10)
MaxSize == 10

\* size of the pool in the specification of pool exhaustion
PoolSize == 1

\* faces of the large event beyond the result cap
ExtraFaces == 3

-----------------------------------------------------------------------------
(* Floats *)

Num(v) == [kind |-> "num", val |-> v]
NaN == [kind |-> "nan", val |-> 0]

\* a <= b on Python floats: false as soon as one side is NaN
FloatLe(a, b) == a.kind = "num" /\ b.kind = "num" /\ a.val <= b.val

\* a > b in PostgreSQL float8, where NaN is greater than every number and
\* equal to itself
PgGreater(a, b) ==
    IF a.kind = "nan" THEN b.kind # "nan"
    ELSE b.kind = "num" /\ a.val > b.val

-----------------------------------------------------------------------------
(* Embedding vectors and pgvector's cosine distance operator <=> *)

RECURSIVE DotFrom(_, _, _)
DotFrom(a, b, i) ==
    IF i > Len(a) THEN 0 ELSE a[i] * b[i] + DotFrom(a, b, i + 1)

Dot(a, b) == DotFrom(a, b, 1)

\* integer square root
ISqrt(n) == CHOOSE k \in 0..n : k * k <= n /\ (k + 1) * (k + 1) > n

Norm(a) == ISqrt(Dot(a, a))

\* a <=> b, in hundredths: 1 - (a . b) / (|a| |b|)
CosineDistance(a, b) == 100 - ((100 * Dot(a, b)) \div (Norm(a) * Norm(b)))

\* the SQL expression  1 - (f.face_embedding <=> $2)
Similarity(stored, probe) == Num(100 - CosineDistance(stored, probe))

-----------------------------------------------------------------------------
(* The stored data: three events, their images and the faces found in them *)

\* embeddings of length 20; against V100 their similarity is the name
V100 == <<20, 0, 0, 0, 0>>
V90 == <<18, 6, 6, 2, 0>>
V65 == <<13, 14, 5, 3, 1>>
V60 == <<12, 16, 0, 0, 0>>
V40 == <<8, 16, 8, 4, 0>>
VNeg == <<-20, 0, 0, 0, 0>>

\* the embeddings the embedding service may return for a probe image
Probes == {V100, V60}

Image(id, ev, ts) ==
    [id |-> id, event_id |-> ev, filename |-> <<"img", id>>,
     thumbnail_url |-> <<"thumb", id>>, uploaded_by |-> "u1", timestamp |-> ts]

Face(fid, img, emb) == [face_id |-> fid, image_id |-> img, face_embedding |-> emb]

\* event e3 holds more matching faces than one response may carry
BigFaceIds == 101..(100 + MaxResults + ExtraFaces)

BigEmbedding(fid) ==
    CASE fid % 3 = 0 -> V100
      [] fid % 3 = 1 -> V90
      [] OTHER -> V65

InitEvents == {"e1", "e2", "e3"}

InitImages ==
    { Image(1, "e1", 11), Image(2, "e1", 12), Image(3, "e1", 0),
      Image(4, "e2", 14), Image(5, "e2", 15), Image(6, "e2", 0),
      Image(7, "e3", 17), Image(8, "e3", 18) }

InitFaces ==
    { Face(1, 1, V90), Face(2, 2, V65), Face(3, 3, V40),
      Face(4, 4, V60), Face(5, 4, V90), Face(6, 5, V90), Face(7, 6, VNeg),
      Face(8, 5, V100) }
    \cup { Face(fid, 7 + (fid % 2), BigEmbedding(fid)) : fid \in BigFaceIds }

\* a row of table orders; cart_session tells which cart it was made from
OrderRow(order_id, order_status, total_amount, cart_session) ==
    [order_id |-> order_id, order_status |-> order_status,
     total_amount |-> total_amount, cart_session |-> cart_session]

\* a row of table cart_sessions
CartSession(session_id, is_active, status) ==
    [session_id |-> session_id, is_active |-> is_active, status |-> status]

\* one pending and one paid order, one active and one converted cart; the
\* payment service has not been called
InitShop ==
    [orders |-> { OrderRow("o1", "pending", 100, "s0"),
                  OrderRow("o2", "paid", 100, "s2") },
     cart_sessions |-> { CartSession("s1", TRUE, "active"),
                         CartSession("s2", FALSE, "converted") },
     gateway |-> {},
     paid_updates |-> {}]

-----------------------------------------------------------------------------
(* The similarity query of search_face *)

JoinedRow(i, f, embedding) ==
    [id |-> i.id, filename |-> i.filename, thumbnail_url |-> i.thumbnail_url,
     uploaded_by |-> i.uploaded_by, timestamp |-> i.timestamp,
     face_id |-> f.face_id,
     similarity |-> Similarity(f.face_embedding, embedding)]

\* mutant: the WHERE clause has no  i.event_id = $1
MatchingRows_AnyEvent(event_id, embedding, threshold) ==
    { JoinedRow(p[1], p[2], embedding) :
      p \in { p \in images \X faces :
                /\ p[1].id = p[2].image_id
                /\ PgGreater(Similarity(p[2].face_embedding, embedding),
                             threshold) } }

\* mutant: the WHERE clause compares with >= instead of >
MatchingRows_Inclusive(event_id, embedding, threshold) ==
    { JoinedRow(p[1], p[2], embedding) :
      p \in { p \in images \X faces :
                /\ p[1].id = p[2].image_id
                /\ p[1].event_id = event_id
                /\ ~PgGreater(threshold,
                              Similarity(p[2].face_embedding, embedding)) } }

\* mutant: the WHERE clause is  (f.face_embedding <=> $2) < $3
MatchingRows_DistanceBelow(event_id, embedding, threshold) ==
    { JoinedRow(p[1], p[2], embedding) :
      p \in { p \in images \X faces :
                /\ p[1].id = p[2].image_id
                /\ p[1].event_id = event_id
                /\ PgGreater(threshold,
                             Num(CosineDistance(p[2].face_embedding,
                                                embedding))) } }

\* FROM images i JOIN faces f ON i.id = f.image_id
\* WHERE i.event_id = $1 AND 1 - (f.face_embedding <=> $2) > $3
\* with the select list of the query
MatchingRows(event_id, embedding, threshold) ==
    { JoinedRow(p[1], p[2], embedding) :
      p \in { p \in images \X faces :
                /\ p[1].id = p[2].image_id
                /\ p[1].event_id = event_id
                /\ PgGreater(Similarity(p[2].face_embedding, embedding),
                             threshold) } }

\* The order in which the engine hands over rows that ORDER BY leaves tied is
\* not fixed by SQL: it is the order of the scan that produced them.
ScanOrders == {"forward", "backward"}

ScanBefore(a, b, scan) ==
    IF scan = "forward" THEN a.face_id < b.face_id ELSE a.face_id > b.face_id

\* mutant: ORDER BY similarity, ascending
SortsBefore_Ascending(a, b, scan) ==
    \/ PgGreater(b.similarity, a.similarity)
    \/ a.similarity = b.similarity /\ ScanBefore(a, b, scan)

\* ORDER BY similarity DESC
SortsBefore(a, b, scan) ==
    \/ PgGreater(a.similarity, b.similarity)
    \/ a.similarity = b.similarity /\ ScanBefore(a, b, scan)

\* the rows in the order of SortsBefore: a row comes after as many rows
\* as sort before it
OrderBySimilarityDesc(rows, scan) ==
    LET ranked == { <<Cardinality({ o \in rows : SortsBefore(o, r, scan) }), r>> :
                    r \in rows }
    IN [k \in 1..Cardinality(rows) |->
          (CHOOSE p \in ranked : p[1] = k - 1)[2]]

\* mutant: the query has no LIMIT
Limit_None(rows, n) == rows

\* LIMIT n
Limit(rows, n) == SubSeq(rows, 1, IF Len(rows) < n THEN Len(rows) ELSE n)

\* conn.fetch(...) of search_face
SimilarityQuery(event_id, embedding, threshold, scan) ==
    Limit(OrderBySimilarityDesc(MatchingRows(event_id, embedding, threshold), scan),
          MaxResults)

-----------------------------------------------------------------------------
(* Requests *)

\* Optional[str]: None, or a string kept as its sequence of tokens
None == [none |-> TRUE, str |-> <<>>]
Str(tokens) == [none |-> FALSE, str |-> tokens]

\* file.content_type values a client may declare
ContentTypes ==
    { None, Str(<<>>), Str(<<"image", "/", "jpeg">>),
      Str(<<"text", "/", "plain">>), Str(<<"image">>) }

\* the threshold form field: left out, or any float
Absent == [kind |-> "absent", val |-> 0]
ThresholdInputs == {Absent, NaN, Num(-1), Num(0), Num(65), Num(100), Num(101)}

\* the event_id form field
EventIds == {"e1", "e2", "e3", "e9"}

\* the form fields of the workload of two requests: valid uploads for the
\* event with tied scores and for the event that exceeds the cap
PairContentTypes == { Str(<<"image", "/", "jpeg">>) }
PairThresholdInputs == {Absent, Num(0)}
PairEventIds == {"e2", "e3"}

\* threshold: float = Form(0.6)
FormThreshold(t) == IF t.kind = "absent" THEN Num(DefaultThreshold) ELSE t

NoResponse == [status |-> 0]

HTTPException(status_code, detail) == [status |-> status_code, detail |-> detail]

IdleRequest ==
    [pc |-> "idle", file |-> [content_type |-> None, filename |-> "none"],
     event_id |-> "none", threshold |-> NaN, user_id |-> "none",
     ai_reply |-> [kind |-> "none"], embedding |-> <<>>, results |-> <<>>,
     response |-> NoResponse, audit |-> <<>>, auth |-> "ok",
     stages |-> <<>>, ai_calls |-> 0, lookups |-> 0, queries |-> 0]

\* str.startswith
StartsWith(s, prefix) ==
    Len(s) >= Len(prefix) /\ SubSeq(s, 1, Len(prefix)) = prefix

\* mutant: the prefix test is forgotten, any non-empty content type passes
IsImageContentType_AnyType(ct) == ~ct.none /\ ct.str # <<>>

\* file.content_type and file.content_type.startswith('image/')
IsImageContentType(ct) ==
    ~ct.none /\ ct.str # <<>> /\ StartsWith(ct.str, <<"image", "/">>)

\* mutant: the range test written as  not (t < 0.0 or t > 1.0)
ThresholdInRange_Negated(t) ==
    ~(t.kind = "num" /\ (t.val < 0 \/ t.val > 100))

\* 0.0 <= threshold <= 1.0
ThresholdInRange(t) == FloatLe(Num(0), t) /\ FloatLe(t, Num(100))

\* mutant: the event lookup is not checked
EventRow_Unchecked(event_id) == TRUE

\* SELECT name FROM events WHERE event_id = $1  returns a row
EventRow(event_id) == event_id \in events

-----------------------------------------------------------------------------
(* log_action *)

\* what happens to an alert: published and flagged, publish raised, or
\* published and the UPDATE of the flag raised
AlertOutcomes == {"sent", "publish_failed", "update_failed"}

LogRow(log_id, user_id, action, details, sent) ==
    [log_id |-> log_id, user_id |-> user_id, action |-> action,
     details |-> details, notification_sent |-> sent]

\* mutant: the new row replaces the rows of the table
LogAction_Overwrites(user_id, action, details, notify, insert_ok, alert) ==
    /\ nextUuid' = nextUuid + 1
    /\ logs' = <<LogRow(nextUuid, user_id, action, details, notify)>>
    /\ UNCHANGED published

\* log_action(conn, user_id, action, details, notify); insert_ok tells
\* whether the INSERT succeeded, alert what the publish did
LogAction(user_id, action, details, notify, insert_ok, alert) ==
    LET log_id == nextUuid IN
    /\ nextUuid' = nextUuid + 1
    /\ IF ~insert_ok
       THEN UNCHANGED <<logs, published>>
       ELSE IF notify /\ sns_enabled /\ alert # "publish_failed"
            THEN /\ published' = published \cup {log_id}
                 /\ logs' = Append(logs,
                        LogRow(log_id, user_id, action, details,
                               IF alert = "sent" THEN TRUE ELSE notify))
            ELSE /\ logs' = Append(logs,
                        LogRow(log_id, user_id, action, details, notify))
                 /\ UNCHANGED published

NoLog == UNCHANGED <<logs, published, nextUuid>>

\* what one call of log_action did: the log_id it drew, whether its INSERT
\* was accepted and whether it tried to publish an alert
AuditCall(action, notify, insert_ok, alert) ==
    [log_id |-> nextUuid, action |-> action, notify |-> notify,
     inserted |-> insert_ok,
     publish |-> IF insert_ok /\ notify /\ sns_enabled
                 THEN (IF alert = "publish_failed" THEN "failed" ELSE "ok")
                 ELSE "none"]

\* mutant: the publish is not wrapped in its own try/except
LogActionRaises_PublishEscapes(notify, insert_ok, alert) ==
    insert_ok /\ notify /\ sns_enabled /\ alert = "publish_failed"

\* mutant: the INSERT is not wrapped in try/except
LogActionRaises_InsertEscapes(notify, insert_ok, alert) == ~insert_ok

\* log_action catches every exception of the INSERT, of the publish and of
\* the UPDATE (except Exception: logger.error): nothing leaves it
LogActionRaises(notify, insert_ok, alert) == FALSE

-----------------------------------------------------------------------------
(* The embedding service *)

\* what session.post(AI_PROCESS_URL, ...) and response.json() can give:
\* kind "client_error" is an aiohttp.ClientError raised by the call,
\* kind "timeout" an asyncio.TimeoutError raised while waiting for the answer,
\* kind "response" an HTTP answer with a status and a body
AiReply(kind, status, json, fields, embedding) ==
    [kind |-> kind, status |-> status, json |-> json, fields |-> fields,
     embedding |-> embedding]

AiReplies ==
    { AiReply("client_error", 0, "none", {}, <<>>),
      AiReply("timeout", 0, "none", {}, <<>>),
      AiReply("response", 422, "object", {"detail"}, <<>>),
      AiReply("response", 500, "not_json", {}, <<>>),
      AiReply("response", 200, "not_json", {}, <<>>),
      AiReply("response", 200, "malformed", {}, <<>>),
      AiReply("response", 200, "null", {}, <<>>),
      AiReply("response", 200, "object", {}, <<>>),
      AiReply("response", 200, "object", {"error"}, <<>>) }
    \cup { AiReply("response", 200, "object", {"embedding"}, p) : p \in Probes }

\* the error messages of search_face
InvalidMediaType == HTTPException(400, "Only image files are allowed")
InvalidThreshold == HTTPException(400, "Threshold must be between 0.0 and 1.0")
EventNotFound == HTTPException(404, "Event not found")
NotConfigured == HTTPException(503, "AI processing service not configured")
NoFaceDetected == HTTPException(400, "No face embedding found in AI response")

\* except Exception as e: ... raise HTTPException(status_code=400, detail=str(e))
Unexpected(e) == HTTPException(400, e)

\* except aiohttp.ClientError as e: ... raise HTTPException(status_code=503, ...)
ConnectionFailed(e) == HTTPException(503, <<"Failed to connect to AI service: ", e>>)

\* if response.status != 200: ... raise HTTPException(status_code=response.status, ...)
ProcessingFailed(status, error_text) ==
    HTTPException(status, <<"AI processing failed: ", error_text>>)

\* what the framework answers when an exception leaves the handler
InternalServerError == HTTPException(500, "Internal Server Error")

\* the answer after a call of log_action: an exception leaving log_action
\* would leave the handler in place of the raise or return that follows it
AfterLog(response, raised) == IF raised THEN InternalServerError ELSE response

\* response.status != 200
IsFailureStatus(status) == status # 200

\* mutant: the embedding field is not checked
LacksEmbedding_Unchecked(face_data) == FALSE

\* 'embedding' not in face_data, for a JSON object
LacksEmbedding(face_data) == "embedding" \notin face_data.fields

-----------------------------------------------------------------------------
(* search_face, one action per stage *)

\* mutant: the handler removes the face rows it has searched
ReadOnly_Prunes == faces' = {} /\ UNCHANGED <<events, images>>

\* the only statements search_face issues on events, images and faces are
\* SELECTs (fetchrow line 1359, fetch line 1403)
ReadOnly == UNCHANGED <<events, images, faces>>

\* the pool hands out a connection only while fewer than max_size are in use;
\* pool.acquire() without a timeout waits otherwise
Free == Cardinality(pool.in_use) < pool.max_size

\* async with pool.acquire() as conn: on entry
Acquire(holder) == Free /\ pool' = [pool EXCEPT !.in_use = @ \cup {holder}]

\* mutant: the connection is not given back when the handler raises or returns
Release_Forgotten(holder) == UNCHANGED pool

\* async with pool.acquire() as conn: on exit, by return or by exception
Release(holder) == pool' = [pool EXCEPT !.in_use = @ \ {holder}]

\* the connection of the handler of request r
Conn(r) == <<"search_face", r>>

\* mutant: an error does not end the request, the stage runs again
Done_Retry(req, response, stage) ==
    [req EXCEPT !.response = response, !.stages = Append(@, stage)]

\* the request record once the handler has raised or returned `response`
Done(req, response, stage) ==
    [req EXCEPT !.pc = "done", !.response = response,
                !.stages = Append(@, stage)]

\* the request record once a stage has handed over to the next one
Advance(req, pc, stage) == [req EXCEPT !.pc = pc, !.stages = Append(@, stage)]

\* mutant: an HTTPException leaves the handler without giving the connection back
Raise_KeepsConnection(r, req, response, stage) ==
    /\ reqs' = [reqs EXCEPT ![r] = Done(req, response, stage)]
    /\ UNCHANGED <<logs, published, nextUuid, pool>>

\* except HTTPException: raise
Raise(r, req, response, stage) ==
    /\ reqs' = [reqs EXCEPT ![r] = Done(req, response, stage)]
    /\ Release(Conn(r))
    /\ UNCHANGED <<logs, published, nextUuid>>

\* await log_action(...) followed by a raise or a return
LogAndFinish(r, req, action, details, notify, response, stage, insert_ok, alert) ==
    /\ LogAction(req.user_id, action, details, notify, insert_ok, alert)
    /\ Release(Conn(r))
    /\ reqs' = [reqs EXCEPT ![r] =
                  Done([req EXCEPT !.audit =
                          Append(@, AuditCall(action, notify, insert_ok, alert))],
                       AfterLog(response,
                                LogActionRaises(notify, insert_ok, alert)),
                       stage)]

\* except Exception as e: log search_face_failed with notify=True, answer 400
FailUnexpected(r, req, e, stage, insert_ok, alert) ==
    LogAndFinish(r, req, "search_face_failed",
                 [event_id |-> req.event_id, error |-> e],
                 TRUE, Unexpected(e), stage, insert_ok, alert)

\* the form fields of a request are bound to the parameters of search_face
Receive(r, ct, t, ev) ==
    /\ reqs[r].pc = "idle"
    /\ reqs[r].auth = "ok"
    /\ Acquire(Conn(r))
    /\ reqs' = [reqs EXCEPT ![r].pc = "validating",
                  ![r].file = [content_type |-> ct, filename |-> "probe.jpg"],
                  ![r].event_id = ev,
                  ![r].threshold = FormThreshold(t),
                  ![r].user_id = "u1"]
    /\ UNCHANGED <<events, images, faces, logs, published, nextUuid>>
    /\ UNCHANGED elsewhere

\* a request arrives: the form fields are bound and a connection acquired
Start(r) ==
    \E ct \in ContentTypes, t \in ThresholdInputs, ev \in EventIds :
        Receive(r, ct, t, ev)

\* a request of the two-request workload arrives
StartPair(r) ==
    \E ct \in PairContentTypes, t \in PairThresholdInputs, ev \in PairEventIds :
        Receive(r, ct, t, ev)

\* a request that has not passed get_current_user yet
NewRequest == [IdleRequest EXCEPT !.auth = "none"]

\* the connection of get_current_user for request r
AuthConn(r) == <<"get_current_user", r>>

\* get_current_user: the token is decoded and a connection acquired
Authenticate(r) ==
    /\ reqs[r].pc = "idle"
    /\ reqs[r].auth = "none"
    /\ Acquire(AuthConn(r))
    /\ reqs' = [reqs EXCEPT ![r].auth = "lookup"]
    /\ UNCHANGED <<events, images, faces, logs, published, nextUuid>>
    /\ UNCHANGED elsewhere

\* get_current_user: the user row is fetched and the connection given back
CurrentUser(r) ==
    /\ reqs[r].pc = "idle"
    /\ reqs[r].auth = "lookup"
    /\ Release(AuthConn(r))
    /\ reqs' = [reqs EXCEPT ![r].auth = "ok"]
    /\ UNCHANGED <<events, images, faces, logs, published, nextUuid>>
    /\ UNCHANGED elsewhere

\* the requests of the workload that exhausts the pool
PoolContentTypes == { Str(<<"image", "/", "jpeg">>), Str(<<"text", "/", "plain">>) }

PoolThresholdInputs == {Absent, Num(101)}

PoolEventIds == {"e1", "e9"}

\* a request of the pool workload enters the handler
StartPool(r) ==
    \E ct \in PoolContentTypes, t \in PoolThresholdInputs, ev \in PoolEventIds :
        Receive(r, ct, t, ev)

\* mutant: the event is looked up before the media type and the threshold
\* are checked
Validate_EventFirst(r) ==
    /\ reqs[r].pc = "validating"
    /\ \E db_ok \in BOOLEAN, insert_ok \in BOOLEAN, alert \in AlertOutcomes :
         LET req == reqs[r]
             looked == [req EXCEPT !.lookups = @ + 1]
         IN IF ~db_ok
            THEN FailUnexpected(r, looked, "db_error", "validate", insert_ok, alert)
            ELSE IF ~EventRow(req.event_id)
            THEN Raise(r, looked, EventNotFound, "validate")
            ELSE IF ~IsImageContentType(req.file.content_type)
            THEN Raise(r, looked, InvalidMediaType, "validate")
            ELSE IF ~ThresholdInRange(req.threshold)
            THEN Raise(r, looked, InvalidThreshold, "validate")
            ELSE IF AI_PROCESS_URL = ""
            THEN Raise(r, looked, NotConfigured, "validate")
            ELSE /\ reqs' = [reqs EXCEPT ![r] = Advance(looked, "embedding", "validate")]
                 /\ UNCHANGED <<logs, published, nextUuid, pool>>
    /\ ReadOnly
    /\ UNCHANGED elsewhere

\* the checks before the embedding call
Validate(r) ==
    /\ reqs[r].pc = "validating"
    /\ \E db_ok \in BOOLEAN, insert_ok \in BOOLEAN, alert \in AlertOutcomes :
         LET req == reqs[r]
             looked == [req EXCEPT !.lookups = @ + 1]
         IN IF ~IsImageContentType(req.file.content_type)
            THEN Raise(r, req, InvalidMediaType, "validate")
            ELSE IF ~ThresholdInRange(req.threshold)
            THEN Raise(r, req, InvalidThreshold, "validate")
            ELSE IF ~db_ok
            THEN FailUnexpected(r, looked, "db_error", "validate", insert_ok, alert)
            ELSE IF ~EventRow(req.event_id)
            THEN Raise(r, looked, EventNotFound, "validate")
            ELSE IF AI_PROCESS_URL = ""
            THEN Raise(r, looked, NotConfigured, "validate")
            ELSE /\ reqs' = [reqs EXCEPT ![r] = Advance(looked, "embedding", "validate")]
                 /\ UNCHANGED <<logs, published, nextUuid, pool>>
    /\ ReadOnly
    /\ UNCHANGED elsewhere

\* session.post(AI_PROCESS_URL, ...), response.json() and the embedding field
EmbeddingCall(r) ==
    /\ reqs[r].pc = "embedding"
    /\ \E reply \in AiReplies, insert_ok \in BOOLEAN, alert \in AlertOutcomes :
         LET req == [reqs[r] EXCEPT !.ai_calls = @ + 1, !.ai_reply = reply] IN
         CASE reply.kind = "client_error" \/
              (reply.kind = "response" /\ ~IsFailureStatus(reply.status)
                 /\ reply.json = "not_json") ->
                LogAndFinish(r, req, "search_face_failed",
                    [event_id |-> req.event_id, connection_error |-> reply.kind],
                    TRUE, ConnectionFailed(reply.kind), "embed", insert_ok, alert)
           [] reply.kind = "timeout" ->
                FailUnexpected(r, req, "TimeoutError", "embed", insert_ok, alert)
           [] reply.kind = "response" /\ IsFailureStatus(reply.status) ->
                LogAndFinish(r, req, "search_face_failed",
                    [event_id |-> req.event_id,
                     ai_service_error |-> <<"body", reply.status>>],
                    TRUE, ProcessingFailed(reply.status, <<"body", reply.status>>),
                    "embed", insert_ok, alert)
           [] reply.kind = "response" /\ ~IsFailureStatus(reply.status)
                 /\ reply.json = "malformed" ->
                FailUnexpected(r, req, "JSONDecodeError", "embed", insert_ok, alert)
           [] reply.kind = "response" /\ ~IsFailureStatus(reply.status)
                 /\ reply.json = "null" ->
                FailUnexpected(r, req, "TypeError", "embed", insert_ok, alert)
           [] reply.kind = "response" /\ ~IsFailureStatus(reply.status)
                 /\ reply.json = "object" /\ LacksEmbedding(reply) ->
                Raise(r, req, NoFaceDetected, "embed")
           [] OTHER ->
                /\ reqs' = [reqs EXCEPT ![r] =
                              Advance([req EXCEPT !.embedding = reply.embedding],
                                    "querying", "embed")]
                /\ UNCHANGED <<logs, published, nextUuid, pool>>
    /\ ReadOnly
    /\ UNCHANGED elsewhere

\* str(), float() and isoformat() of one row of the response
ResultEntry(row) ==
    [id |-> ToString(row.id), filename |-> row.filename,
     thumbnail_url |-> row.thumbnail_url,
     uploaded_by |-> row.uploaded_by,
     timestamp |-> IF row.timestamp # 0 THEN <<"iso", row.timestamp>> ELSE <<>>,
     face_id |-> ToString(row.face_id),
     similarity |-> row.similarity]

\* mutant: a search without matches is answered as an error
SearchResponse_EmptyIsError(req) ==
    IF Len(req.results) = 0
    THEN HTTPException(404, "No matching faces")
    ELSE [status |-> 200,
          results |-> [k \in 1..Len(req.results) |-> ResultEntry(req.results[k])],
          search_params |-> [event_id |-> req.event_id,
                             threshold |-> req.threshold,
                             total_matches |-> Len(req.results)]]

\* mutant: total_matches reports the cap instead of the number of results
SearchResponse_TotalIsCap(req) ==
    [status |-> 200,
     results |-> [k \in 1..Len(req.results) |-> ResultEntry(req.results[k])],
     search_params |-> [event_id |-> req.event_id, threshold |-> req.threshold,
                        total_matches |-> MaxResults]]

\* the dictionary search_face returns
SearchResponse(req) ==
    [status |-> 200,
     results |-> [k \in 1..Len(req.results) |-> ResultEntry(req.results[k])],
     search_params |-> [event_id |-> req.event_id, threshold |-> req.threshold,
                        total_matches |-> Len(req.results)]]

\* conn.fetch of the similarity query: it raises, or it returns the rows
Query(r) ==
    /\ reqs[r].pc = "querying"
    /\ LET req == [reqs[r] EXCEPT !.queries = @ + 1] IN
       \/ \E insert_ok \in BOOLEAN, alert \in AlertOutcomes :
            FailUnexpected(r, req, "db_error", "query", insert_ok, alert)
       \/ \E scan \in ScanOrders :
            /\ reqs' = [reqs EXCEPT ![r] =
                  Advance([req EXCEPT !.results =
                            SimilarityQuery(req.event_id, req.embedding,
                                            req.threshold, scan)],
                        "assembling", "query")]
            /\ UNCHANGED <<logs, published, nextUuid, pool>>
    /\ ReadOnly
    /\ UNCHANGED elsewhere

\* the audit entry of a finished search and the response
Assemble(r) ==
    /\ reqs[r].pc = "assembling"
    /\ \E insert_ok \in BOOLEAN, alert \in AlertOutcomes :
         LogAndFinish(r, reqs[r], "search_face",
             [event_id |-> reqs[r].event_id,
              result_count |-> Len(reqs[r].results),
              threshold |-> reqs[r].threshold,
              filename |-> reqs[r].file.filename],
             FALSE, SearchResponse(reqs[r]), "assemble", insert_ok, alert)
    /\ ReadOnly
    /\ UNCHANGED elsewhere

-----------------------------------------------------------------------------
(* Specification: one search_face request against the stored data *)

Init ==
    /\ events = InitEvents
    /\ images = InitImages
    /\ faces = InitFaces
    /\ logs = <<>>
    /\ published = {}
    /\ nextUuid = 1
    /\ AI_PROCESS_URL \in {"", "http://localhost:8001/process_face"}
    /\ sns_enabled \in BOOLEAN
    /\ reqs = [r \in {1} |-> IdleRequest]
    /\ dels = <<>>
    /\ pool = [max_size |-> MaxSize, in_use |-> {}]
    /\ shop = InitShop
    /\ pays = <<>>
    /\ creates = <<>>

Next ==
    \/ \E r \in DOMAIN reqs : Start(r)
    \/ \E r \in DOMAIN reqs : Validate(r)
    \/ \E r \in DOMAIN reqs : EmbeddingCall(r)
    \/ \E r \in DOMAIN reqs : Query(r)
    \/ \E r \in DOMAIN reqs : Assemble(r)

Spec == Init /\ [][Next]_vars

-----------------------------------------------------------------------------
(* Specification: two search_face requests, in any interleaving of their
   stages, with the embedding service configured and alerts enabled *)

InitPair ==
    /\ events = InitEvents
    /\ images = InitImages
    /\ faces = InitFaces
    /\ logs = <<>>
    /\ published = {}
    /\ nextUuid = 1
    /\ AI_PROCESS_URL = "http://localhost:8001/process_face"
    /\ sns_enabled = TRUE
    /\ reqs = [r \in {1, 2} |-> IdleRequest]
    /\ dels = <<>>
    /\ pool = [max_size |-> MaxSize, in_use |-> {}]
    /\ shop = InitShop
    /\ pays = <<>>
    /\ creates = <<>>

NextPair ==
    \/ \E r \in DOMAIN reqs : StartPair(r)
    \/ \E r \in DOMAIN reqs : Validate(r)
    \/ \E r \in DOMAIN reqs : EmbeddingCall(r)
    \/ \E r \in DOMAIN reqs : Query(r)
    \/ \E r \in DOMAIN reqs : Assemble(r)

SpecPair == InitPair /\ [][NextPair]_vars

-----------------------------------------------------------------------------
(* delete_event, one action per statement: the handler runs its statements
   on a connection without a transaction, so each takes effect on its own *)

IdleDelete == [pc |-> "idle", event_id |-> "none", response |-> NoResponse]

\* the events the admin asks to delete
DeleteEventIds == {"e2", "e9"}

\* faces.event_id of a face row: the event of the image it was found in
FaceEvent(f) ==
    IF \E i \in images : i.id = f.image_id
    THEN (CHOOSE i \in images : i.id = f.image_id).event_id
    ELSE "none"

\* except Exception as e: log delete_event_failed with notify=True, answer 400
DeleteFail(d, insert_ok, alert) ==
    /\ LogAction("admin", "delete_event_failed",
                 [event_id |-> dels[d].event_id, error |-> "db_error"],
                 TRUE, insert_ok, alert)
    /\ dels' = [dels EXCEPT ![d].pc = "done",
                            ![d].response = Unexpected("db_error")]
    /\ UNCHANGED <<events, images, faces>>

\* DELETE /events/{event_id} arrives
DeleteReceive(d) ==
    /\ dels[d].pc = "idle"
    /\ \E ev \in DeleteEventIds :
         dels' = [dels EXCEPT ![d].pc = "checking", ![d].event_id = ev]
    /\ UNCHANGED <<events, images, faces, logs, published, nextUuid,
                   AI_PROCESS_URL, sns_enabled, reqs, pool,
                   shop, pays, creates>>

\* SELECT name FROM events WHERE event_id = $1
DeleteCheck(d) ==
    /\ dels[d].pc = "checking"
    /\ \/ \E insert_ok \in BOOLEAN, alert \in AlertOutcomes :
            DeleteFail(d, insert_ok, alert)
       \/ /\ dels' = IF dels[d].event_id \in events
                     THEN [dels EXCEPT ![d].pc = "faces"]
                     ELSE [dels EXCEPT ![d].pc = "done",
                                       ![d].response = EventNotFound]
          /\ UNCHANGED <<events, images, faces, logs, published, nextUuid>>
    /\ UNCHANGED <<AI_PROCESS_URL, sns_enabled, reqs, pool,
                   shop, pays, creates>>

\* DELETE FROM faces WHERE event_id = $1
DeleteFaces(d) ==
    /\ dels[d].pc = "faces"
    /\ \/ \E insert_ok \in BOOLEAN, alert \in AlertOutcomes :
            DeleteFail(d, insert_ok, alert)
       \/ /\ faces' = { f \in faces : FaceEvent(f) # dels[d].event_id }
          /\ dels' = [dels EXCEPT ![d].pc = "images"]
          /\ UNCHANGED <<events, images, logs, published, nextUuid>>
    /\ UNCHANGED <<AI_PROCESS_URL, sns_enabled, reqs, pool,
                   shop, pays, creates>>

\* DELETE FROM consents ...; DELETE FROM images WHERE event_id = $1
DeleteImages(d) ==
    /\ dels[d].pc = "images"
    /\ \/ \E insert_ok \in BOOLEAN, alert \in AlertOutcomes :
            DeleteFail(d, insert_ok, alert)
       \/ /\ images' = { i \in images : i.event_id # dels[d].event_id }
          /\ dels' = [dels EXCEPT ![d].pc = "event"]
          /\ UNCHANGED <<events, faces, logs, published, nextUuid>>
    /\ UNCHANGED <<AI_PROCESS_URL, sns_enabled, reqs, pool,
                   shop, pays, creates>>

\* DELETE FROM events WHERE event_id = $1
DeleteEventRow(d) ==
    /\ dels[d].pc = "event"
    /\ \/ \E insert_ok \in BOOLEAN, alert \in AlertOutcomes :
            DeleteFail(d, insert_ok, alert)
       \/ /\ events' = events \ {dels[d].event_id}
          /\ dels' = [dels EXCEPT ![d].pc = "logging"]
          /\ UNCHANGED <<images, faces, logs, published, nextUuid>>
    /\ UNCHANGED <<AI_PROCESS_URL, sns_enabled, reqs, pool,
                   shop, pays, creates>>

\* the bucket is removed, the deletion is logged and the handler returns
DeleteFinish(d) ==
    /\ dels[d].pc = "logging"
    /\ \E insert_ok \in BOOLEAN, alert \in AlertOutcomes :
         LogAction("admin", "delete_event",
                   [event_id |-> dels[d].event_id], TRUE, insert_ok, alert)
    /\ dels' = [dels EXCEPT ![d].pc = "done",
                  ![d].response = [status |-> 200,
                                   message |-> "Event deleted successfully"]]
    /\ UNCHANGED <<events, images, faces, AI_PROCESS_URL, sns_enabled, reqs, pool,
                   shop, pays, creates>>

-----------------------------------------------------------------------------
(* Specification: one search_face request and one delete_event request, in
   any interleaving of their statements *)

InitDelete ==
    /\ events = InitEvents
    /\ images = InitImages
    /\ faces = InitFaces
    /\ logs = <<>>
    /\ published = {}
    /\ nextUuid = 1
    /\ AI_PROCESS_URL = "http://localhost:8001/process_face"
    /\ sns_enabled = TRUE
    /\ reqs = [r \in {1} |-> IdleRequest]
    /\ dels = [d \in {1} |-> IdleDelete]
    /\ pool = [max_size |-> MaxSize, in_use |-> {}]
    /\ shop = InitShop
    /\ pays = <<>>
    /\ creates = <<>>

NextDelete ==
    \/ \E r \in DOMAIN reqs : StartPair(r)
    \/ \E r \in DOMAIN reqs : Validate(r)
    \/ \E r \in DOMAIN reqs : EmbeddingCall(r)
    \/ \E r \in DOMAIN reqs : Query(r)
    \/ \E r \in DOMAIN reqs : Assemble(r)
    \/ \E d \in DOMAIN dels : DeleteReceive(d)
    \/ \E d \in DOMAIN dels : DeleteCheck(d)
    \/ \E d \in DOMAIN dels : DeleteFaces(d)
    \/ \E d \in DOMAIN dels : DeleteImages(d)
    \/ \E d \in DOMAIN dels : DeleteEventRow(d)
    \/ \E d \in DOMAIN dels : DeleteFinish(d)

SpecDelete == InitDelete /\ [][NextDelete]_vars

-----------------------------------------------------------------------------
(* Specification: two search_face requests on a pool of PoolSize connections.
   Every statement of a request in flight ends (the embedding call after at
   most 30 s, a database command after at most command_timeout), and the pool
   hands a connection that is given back to a request waiting for one *)

InitPool ==
    /\ events = InitEvents
    /\ images = InitImages
    /\ faces = InitFaces
    /\ logs = <<>>
    /\ published = {}
    /\ nextUuid = 1
    /\ AI_PROCESS_URL = "http://localhost:8001/process_face"
    /\ sns_enabled = TRUE
    /\ reqs = [r \in {1, 2} |-> NewRequest]
    /\ dels = <<>>
    /\ pool = [max_size |-> PoolSize, in_use |-> {}]
    /\ shop = InitShop
    /\ pays = <<>>
    /\ creates = <<>>

NextPool ==
    \/ \E r \in DOMAIN reqs : Authenticate(r)
    \/ \E r \in DOMAIN reqs : CurrentUser(r)
    \/ \E r \in DOMAIN reqs : StartPool(r)
    \/ \E r \in DOMAIN reqs : Validate(r)
    \/ \E r \in DOMAIN reqs : EmbeddingCall(r)
    \/ \E r \in DOMAIN reqs : Query(r)
    \/ \E r \in DOMAIN reqs : Assemble(r)

Step(r) ==
    \/ Authenticate(r) \/ CurrentUser(r) \/ StartPool(r)
    \/ Validate(r) \/ EmbeddingCall(r) \/ Query(r) \/ Assemble(r)

SpecPool ==
    InitPool /\ [][NextPool]_vars /\ \A r \in {1, 2} : WF_vars(Step(r))

-----------------------------------------------------------------------------
(* process_order_payment of routers/orders.py, one action per awaited call.
   The handler runs on a pooled connection without a transaction *)

IdlePayment ==
    [pc |-> "idle", order_id |-> "none", amount |-> 0, response |-> NoResponse]

\* the orders and the amounts of the payment requests
PayOrderIds == {"o1", "o2"}

PayAmounts == {100, 99}

\* what process_payment(payment_data, order) can do
PaymentOutcomes == {"success", "failed", "raised"}

\* SELECT * FROM orders WHERE order_id = $1 AND order_status = 'pending'
PendingOrder(order_id) ==
    { o \in shop.orders : o.order_id = order_id /\ o.order_status = "pending" }

\* the order_status of an order in table orders
StatusOf(order_id) ==
    IF \E o \in shop.orders : o.order_id = order_id
    THEN (CHOOSE o \in shop.orders : o.order_id = order_id).order_status
    ELSE "none"

\* UPDATE orders SET order_status = 'paid', ... WHERE order_id = $1
MarkPaid(p) ==
    [shop EXCEPT
       !.orders = { IF o.order_id = pays[p].order_id
                    THEN [o EXCEPT !.order_status = "paid"] ELSE o : o \in @ },
       !.paid_updates = @ \cup {[order_id |-> pays[p].order_id, request |-> p]}]

\* the handler raises or returns: the request ends with this response
PayDone(p, response) ==
    pays' = [pays EXCEPT ![p].pc = "done", ![p].response = response]

\* except Exception as e: raise HTTPException(500, "Failed to process payment: ...")
PaymentError == HTTPException(500, "Failed to process payment")

PayFrame ==
    UNCHANGED <<events, images, faces, logs, published, nextUuid,
                AI_PROCESS_URL, sns_enabled, reqs, dels, pool, creates>>

\* POST /{order_id}/payments arrives
PayReceive(p) ==
    /\ pays[p].pc = "idle"
    /\ \E o \in PayOrderIds, a \in PayAmounts :
         pays' = [pays EXCEPT ![p].pc = "lookup", ![p].order_id = o,
                              ![p].amount = a]
    /\ UNCHANGED shop
    /\ PayFrame

\* the order is fetched if it is pending, and the amount compared with it
PayLookup(p) ==
    /\ pays[p].pc = "lookup"
    /\ \/ PayDone(p, PaymentError)
       \/ IF PendingOrder(pays[p].order_id) = {}
          THEN PayDone(p, HTTPException(404, "Order not found or already processed"))
          ELSE IF \E o \in PendingOrder(pays[p].order_id) :
                     pays[p].amount # o.total_amount
          THEN PayDone(p, HTTPException(400,
                            "Payment amount does not match order total"))
          ELSE pays' = [pays EXCEPT ![p].pc = "charging"]
    /\ UNCHANGED shop
    /\ PayFrame

\* payment_result = await process_payment(payment_data, order)
PayCharge(p) ==
    /\ pays[p].pc = "charging"
    /\ \E result \in PaymentOutcomes :
         /\ shop' = [shop EXCEPT !.gateway = @ \cup
                       {[order_id |-> pays[p].order_id, request |-> p,
                         order_status |-> StatusOf(pays[p].order_id),
                         result |-> result]}]
         /\ CASE result = "success" -> pays' = [pays EXCEPT ![p].pc = "updating"]
              [] result = "failed" ->
                   PayDone(p, [status |-> 200, payment_status |-> "failed"])
              [] OTHER -> PayDone(p, PaymentError)
    /\ PayFrame

\* the order is set to 'paid'
PayUpdate(p) ==
    /\ pays[p].pc = "updating"
    /\ \/ PayDone(p, PaymentError) /\ UNCHANGED shop
       \/ /\ shop' = MarkPaid(p)
          /\ pays' = [pays EXCEPT ![p].pc = "confirming"]
    /\ PayFrame

\* generate_download_link, the confirmation mail, and the PaymentResponse
PayConfirm(p) ==
    /\ pays[p].pc = "confirming"
    /\ \/ PayDone(p, PaymentError)
       \/ PayDone(p, [status |-> 200, payment_status |-> "success"])
    /\ UNCHANGED shop
    /\ PayFrame

-----------------------------------------------------------------------------
(* Specification: two process_order_payment requests in any interleaving *)

InitPay ==
    /\ events = InitEvents
    /\ images = InitImages
    /\ faces = InitFaces
    /\ logs = <<>>
    /\ published = {}
    /\ nextUuid = 1
    /\ AI_PROCESS_URL = "http://localhost:8001/process_face"
    /\ sns_enabled = TRUE
    /\ reqs = <<>>
    /\ dels = <<>>
    /\ pool = [max_size |-> MaxSize, in_use |-> {}]
    /\ shop = InitShop
    /\ pays = [p \in {1, 2} |-> IdlePayment]
    /\ creates = <<>>

NextPay ==
    \/ \E p \in DOMAIN pays : PayReceive(p)
    \/ \E p \in DOMAIN pays : PayLookup(p)
    \/ \E p \in DOMAIN pays : PayCharge(p)
    \/ \E p \in DOMAIN pays : PayUpdate(p)
    \/ \E p \in DOMAIN pays : PayConfirm(p)

SpecPay == InitPay /\ [][NextPay]_vars

-----------------------------------------------------------------------------
(* create_order of routers/orders.py, one action per awaited statement.
   The handler runs on a pooled connection without a transaction *)

IdleCreate ==
    [pc |-> "idle", session_id |-> "none", order |-> [package_type |-> "none"],
     order_id |-> "none", response |-> NoResponse]

\* the carts and the OrderCreate bodies of the requests
CreateSessionIds == {"s1", "s2"}

OrderBody(event_id, package_type, image_ids) ==
    [event_id |-> event_id, package_type |-> package_type, image_ids |-> image_ids]

OrderBodies ==
    { OrderBody("e1", "single", <<1>>),
      OrderBody("e1", "single", <<>>),
      OrderBody("e1", "package_4", <<1, 2, 3, 4, 5>>),
      OrderBody("e2", "single", <<1>>) }

\* rows of event_pricing with is_active = TRUE
EventPricing ==
    { [event_id |-> "e1", package_type |-> "single", price |-> 100],
      [event_id |-> "e1", package_type |-> "package_4", price |-> 300] }

\* SELECT * FROM cart_sessions WHERE session_id = $1 AND is_active = TRUE
ActiveSession(session_id) ==
    { c \in shop.cart_sessions : c.session_id = session_id /\ c.is_active }

\* SELECT price FROM event_pricing WHERE event_id = $1 AND package_type = $2 ...
Pricing(order) ==
    { q \in EventPricing :
        q.event_id = order.event_id /\ q.package_type = order.package_type }

\* 1 if order.package_type == "single" else 4
MaxImages(package_type) == IF package_type = "single" THEN 1 ELSE 4

\* the handler raises or returns: the request ends with this response
CreateDone(c, response) ==
    creates' = [creates EXCEPT ![c].pc = "done", ![c].response = response]

\* except Exception as e: raise HTTPException(500, "Failed to create order: ...")
CreateError == HTTPException(500, "Failed to create order")

CreateFrame ==
    UNCHANGED <<events, images, faces, logs, published,
                AI_PROCESS_URL, sns_enabled, reqs, dels, pool, pays>>

\* POST /?session_id=... arrives
CreateReceive(c) ==
    /\ creates[c].pc = "idle"
    /\ \E sid \in CreateSessionIds, body \in OrderBodies :
         creates' = [creates EXCEPT ![c].pc = "session",
                                    ![c].session_id = sid, ![c].order = body]
    /\ UNCHANGED <<shop, nextUuid>>
    /\ CreateFrame

\* the cart session is fetched if it is active
CreateSession(c) ==
    /\ creates[c].pc = "session"
    /\ \/ CreateDone(c, CreateError)
       \/ IF ActiveSession(creates[c].session_id) = {}
          THEN CreateDone(c, HTTPException(404, "Cart session not found"))
          ELSE creates' = [creates EXCEPT ![c].pc = "pricing"]
    /\ UNCHANGED <<shop, nextUuid>>
    /\ CreateFrame

\* the price is fetched and the image selection validated
CreatePricing(c) ==
    /\ creates[c].pc = "pricing"
    /\ LET order == creates[c].order IN
       \/ CreateDone(c, CreateError)
       \/ IF Pricing(order) = {}
          THEN CreateDone(c, HTTPException(404, "Pricing not found for this package"))
          ELSE IF order.package_type \in {"single", "package_4"}
                  /\ order.image_ids = <<>>
          THEN CreateDone(c, HTTPException(400,
                               "Image selection required for this package"))
          ELSE IF order.package_type \in {"single", "package_4"}
                  /\ Len(order.image_ids) > MaxImages(order.package_type)
          THEN CreateDone(c, HTTPException(400, "Too many images selected"))
          ELSE creates' = [creates EXCEPT ![c].pc = "insert"]
    /\ UNCHANGED <<shop, nextUuid>>
    /\ CreateFrame

\* INSERT INTO orders ... with order_id = str(uuid.uuid4())
CreateInsert(c) ==
    /\ creates[c].pc = "insert"
    /\ \/ CreateDone(c, CreateError) /\ UNCHANGED shop
       \/ /\ shop' = [shop EXCEPT !.orders = @ \cup
                        { OrderRow(ToString(nextUuid), "pending",
                                   (CHOOSE q \in Pricing(creates[c].order) : TRUE).price,
                                   creates[c].session_id) }]
          /\ creates' = [creates EXCEPT ![c].pc = "items",
                                       ![c].order_id = ToString(nextUuid)]
    /\ nextUuid' = nextUuid + 1
    /\ CreateFrame

\* INSERT INTO order_items ... for every selected image
CreateItems(c) ==
    /\ creates[c].pc = "items"
    /\ \/ CreateDone(c, CreateError)
       \/ creates' = [creates EXCEPT ![c].pc = "convert"]
    /\ UNCHANGED <<shop, nextUuid>>
    /\ CreateFrame

\* UPDATE cart_sessions SET is_active = FALSE, status = 'converted' ...
CreateConvert(c) ==
    /\ creates[c].pc = "convert"
    /\ \/ CreateDone(c, CreateError) /\ UNCHANGED shop
       \/ /\ shop' = [shop EXCEPT !.cart_sessions =
                        { IF cs.session_id = creates[c].session_id
                          THEN CartSession(cs.session_id, FALSE, "converted")
                          ELSE cs : cs \in @ }]
          /\ CreateDone(c, [status |-> 200, order_id |-> creates[c].order_id])
    /\ UNCHANGED nextUuid
    /\ CreateFrame

-----------------------------------------------------------------------------
(* Specification: two create_order requests in any interleaving *)

InitCreate ==
    /\ events = InitEvents
    /\ images = InitImages
    /\ faces = InitFaces
    /\ logs = <<>>
    /\ published = {}
    /\ nextUuid = 1
    /\ AI_PROCESS_URL = "http://localhost:8001/process_face"
    /\ sns_enabled = TRUE
    /\ reqs = <<>>
    /\ dels = <<>>
    /\ pool = [max_size |-> MaxSize, in_use |-> {}]
    /\ shop = InitShop
    /\ pays = <<>>
    /\ creates = [c \in {1, 2} |-> IdleCreate]

NextCreate ==
    \/ \E c \in DOMAIN creates : CreateReceive(c)
    \/ \E c \in DOMAIN creates : CreateSession(c)
    \/ \E c \in DOMAIN creates : CreatePricing(c)
    \/ \E c \in DOMAIN creates : CreateInsert(c)
    \/ \E c \in DOMAIN creates : CreateItems(c)
    \/ \E c \in DOMAIN creates : CreateConvert(c)

SpecCreate == InitCreate /\ [][NextCreate]_vars

-----------------------------------------------------------------------------
(* Properties of the request validator and of the stage order *)

Requests == DOMAIN reqs

Finished(r) == reqs[r].pc = "done"

Succeeded(r) == Finished(r) /\ reqs[r].response.status = 200

\* a declared content type denotes an image when its type part is "image"
DenotesImage(ct) ==
    ~ct.none /\ Len(ct.str) >= 2 /\ ct.str[1] = "image" /\ ct.str[2] = "/"

\* C1: a request whose content type is absent or does not denote an image
\* never reaches the embedding service (zero calls in every state of the
\* request) and ends with InvalidMediaType, status 400, whatever its
\* threshold and event identifier are.
C1_NonImageRejected ==
    \A r \in Requests :
        (reqs[r].pc # "idle" /\ ~DenotesImage(reqs[r].file.content_type)) =>
            /\ reqs[r].ai_calls = 0
            /\ reqs[r].pc \in {"validating", "done"}
            /\ Finished(r) =>
                 /\ reqs[r].response = InvalidMediaType
                 /\ reqs[r].response.status = 400

\* a text/plain upload with an out-of-range threshold and an unknown event
\* was rejected for its media type
C1_Witness ==
    \E r \in Requests :
        /\ Finished(r)
        /\ reqs[r].file.content_type = Str(<<"text", "/", "plain">>)
        /\ reqs[r].threshold = Num(101)
        /\ reqs[r].event_id = "e9"
        /\ reqs[r].response = InvalidMediaType
        /\ reqs[r].ai_calls = 0

\* t < 0.0 or t > 1.0, on floats: false for NaN
BelowZeroOrAboveOne(t) == t.kind = "num" /\ (t.val < 0 \/ t.val > 100)

\* C2 as stated: a request with an image content type is rejected with
\* InvalidThreshold if and only if t < 0.0 or t > 1.0.
C2_RejectedIffOutside ==
    \A r \in Requests :
        (Finished(r) /\ DenotesImage(reqs[r].file.content_type)) =>
            (reqs[r].response = InvalidThreshold
                <=> BelowZeroOrAboveOne(reqs[r].threshold))

\* C2 amended: a request with an image content type is rejected with
\* InvalidThreshold if and only if t < 0.0, t > 1.0 or t is NaN; 0.0 and 1.0
\* are accepted, and a rejected request makes no embedding-service call.
C2_RejectedIffNotInRange ==
    \A r \in Requests :
        (reqs[r].pc # "idle" /\ DenotesImage(reqs[r].file.content_type)) =>
            LET t == reqs[r].threshold
                outside == BelowZeroOrAboveOne(t) \/ t.kind = "nan"
            IN /\ outside =>
                    /\ reqs[r].pc \in {"validating", "done"}
                    /\ reqs[r].ai_calls = 0
                    /\ Finished(r) => reqs[r].response = InvalidThreshold
               /\ ~outside =>
                    (Finished(r) => reqs[r].response # InvalidThreshold)

\* both endpoints got past the validator and a NaN threshold was rejected
C2_Witness ==
    \E r \in Requests :
        /\ Finished(r)
        /\ DenotesImage(reqs[r].file.content_type)
        /\ reqs[r].threshold = NaN
        /\ reqs[r].response = InvalidThreshold
        /\ reqs[r].ai_calls = 0

Pipeline == <<"validate", "embed", "query", "assemble">>

IsPrefix(s, t) == Len(s) <= Len(t) /\ s = SubSeq(t, 1, Len(s))

\* C5: the stages of a request run in the order validation, embedding call,
\* similarity query, result assembly, each at most once; the query is issued
\* only with an embedding the embedding call returned; a request that ended
\* with an error ran no stage after the one that failed, and a request that
\* succeeded ran all four.
C5_StagesInOrder ==
    \A r \in Requests :
        LET q == reqs[r]
            n == Len(q.stages)
        IN /\ IsPrefix(q.stages, Pipeline)
           /\ q.lookups <= 1
           /\ q.ai_calls = (IF n >= 2 THEN 1 ELSE 0)
           /\ q.queries = (IF n >= 3 THEN 1 ELSE 0)
           /\ n = (CASE q.pc \in {"idle", "validating"} -> 0
                     [] q.pc = "embedding" -> 1
                     [] q.pc = "querying" -> 2
                     [] q.pc = "assembling" -> 3
                     [] OTHER -> n)
           /\ (n >= 3 \/ q.pc = "querying") =>
                 /\ q.ai_reply.kind = "response"
                 /\ "embedding" \in q.ai_reply.fields
                 /\ q.embedding = q.ai_reply.embedding
                 /\ q.embedding \in Probes
           /\ Finished(r) =>
                 /\ n >= 1
                 /\ (q.response.status = 200) <=> (q.stages = Pipeline)
                 /\ (q.response.status # 200) => (n <= 3 /\ q.results = <<>>)

\* a request whose embedding call failed ended there, without a query
C5_Witness ==
    \E r \in Requests :
        /\ Finished(r)
        /\ reqs[r].stages = <<"validate", "embed">>
        /\ reqs[r].response.status = 503
        /\ reqs[r].ai_calls = 1
        /\ reqs[r].queries = 0

-----------------------------------------------------------------------------
(* Properties of the similarity matcher and of the returned results *)

\* the faces found in the images of an event
EventFaces(ev) ==
    { f \in faces : \E i \in images : i.id = f.image_id /\ i.event_id = ev }

\* similarity of a stored face to a probe, in hundredths
Score(f, probe) == 100 - CosineDistance(f.face_embedding, probe)

\* the faces of an event that are more similar to the probe than t
Above(ev, probe, t) == { f \in EventFaces(ev) : Score(f, probe) > t.val }

ResultsOf(r) == reqs[r].response.results

ReturnedFaceIds(r) == { ResultsOf(r)[k].face_id : k \in 1..Len(ResultsOf(r)) }

Scores(r) == [k \in 1..Len(ResultsOf(r)) |-> ResultsOf(r)[k].similarity.val]

Smaller(a, b) == IF a < b THEN a ELSE b

\* C6: the results of a successful search are faces of images of the
\* requested event whose similarity to the probe is above the threshold,
\* each at most once and with its own image and score; they are all of
\* them unless there are more than 50; and for the probe V100 in event e1
\* (stored similarities 0.9, 0.65, 0.4) at threshold 0.6 the scores of the
\* results are 0.9, 0.65.
C6_ResultsAreEventMatches ==
    \A r \in Requests :
        Succeeded(r) =>
            LET q == reqs[r]
                matches == Above(q.event_id, q.embedding, q.threshold)
            IN /\ \A k \in 1..Len(ResultsOf(r)) :
                    \E f \in matches :
                        /\ ResultsOf(r)[k].face_id = ToString(f.face_id)
                        /\ ResultsOf(r)[k].id = ToString(f.image_id)
                        /\ ResultsOf(r)[k].similarity = Num(Score(f, q.embedding))
               /\ Cardinality(ReturnedFaceIds(r)) = Len(ResultsOf(r))
               /\ Len(ResultsOf(r)) = Smaller(Cardinality(matches), MaxResults)
               /\ (q.event_id = "e1" /\ q.embedding = V100 /\ q.threshold = Num(60))
                    => Scores(r) = <<90, 65>>

\* the search of event e1 returned two results while a face of another
\* event is closer to the probe than both
C6_Witness ==
    \E r \in Requests :
        /\ Succeeded(r)
        /\ reqs[r].event_id = "e1"
        /\ reqs[r].embedding = V100
        /\ reqs[r].threshold = Num(60)
        /\ Scores(r) = <<90, 65>>
        /\ { Score(f, V100) : f \in EventFaces("e1") } = {90, 65, 40}
        /\ \E f \in EventFaces("e2") : Score(f, V100) = 100

\* C7: no result of a successful search has a similarity equal to (or
\* below) the threshold, so a face whose score equals the threshold is not
\* returned, and every face of the event whose score is strictly greater is
\* returned when fewer than 50 results are.
C7_ThresholdExclusive ==
    \A r \in Requests :
        Succeeded(r) =>
            LET q == reqs[r] IN
            /\ \A k \in 1..Len(ResultsOf(r)) : Scores(r)[k] > q.threshold.val
            /\ \A f \in EventFaces(q.event_id) :
                 /\ Score(f, q.embedding) = q.threshold.val
                      => ToString(f.face_id) \notin ReturnedFaceIds(r)
                 /\ (Score(f, q.embedding) > q.threshold.val
                       /\ Len(ResultsOf(r)) < MaxResults)
                      => ToString(f.face_id) \in ReturnedFaceIds(r)

\* a search of event e2 at threshold 0.6 left out the face whose score is
\* exactly 0.6 and returned the others above it
C7_Witness ==
    \E r \in Requests :
        /\ Succeeded(r)
        /\ reqs[r].event_id = "e2"
        /\ reqs[r].threshold = Num(60)
        /\ \E f \in EventFaces("e2") :
             /\ Score(f, reqs[r].embedding) = 60
             /\ ToString(f.face_id) \notin ReturnedFaceIds(r)
        /\ Len(ResultsOf(r)) = 3

\* C8: in every success response each entry has a similarity greater than
\* or equal to that of the next one, and the entries are the rows of the
\* similarity query in the order the query returned them.
C8_ResultsDescending ==
    \A r \in Requests :
        Succeeded(r) =>
            /\ \A k \in 1..(Len(ResultsOf(r)) - 1) : Scores(r)[k] >= Scores(r)[k + 1]
            /\ Len(ResultsOf(r)) = Len(reqs[r].results)
            /\ \A k \in 1..Len(ResultsOf(r)) :
                 /\ ResultsOf(r)[k].face_id = ToString(reqs[r].results[k].face_id)
                 /\ ResultsOf(r)[k].similarity = reqs[r].results[k].similarity

\* a response with four results of three different scores
C8_Witness ==
    \E r \in Requests :
        /\ Succeeded(r)
        /\ reqs[r].event_id = "e2"
        /\ Scores(r) = <<100, 90, 90, 60>>

\* C9: a success response never has more than 50 results, and when more
\* than 50 faces of the event exceed the threshold it has exactly 50 and no
\* face left out has a higher score than a returned one.
C9_AtMostFiftyBest ==
    \A r \in Requests :
        Succeeded(r) =>
            LET q == reqs[r]
                matches == Above(q.event_id, q.embedding, q.threshold)
            IN /\ Len(ResultsOf(r)) <= MaxResults
               /\ Cardinality(matches) > MaxResults =>
                    /\ Len(ResultsOf(r)) = MaxResults
                    /\ \A f \in matches :
                         ToString(f.face_id) \notin ReturnedFaceIds(r) =>
                            \A k \in 1..Len(ResultsOf(r)) :
                                Score(f, q.embedding) <= Scores(r)[k]

\* a search of event e3 found more than 50 faces above the threshold and
\* returned 50 of them
C9_Witness ==
    \E r \in Requests :
        /\ Succeeded(r)
        /\ reqs[r].event_id = "e3"
        /\ Cardinality(Above("e3", reqs[r].embedding, reqs[r].threshold)) > MaxResults
        /\ Len(ResultsOf(r)) = MaxResults

\* the thresholds the validator lets through
ValidThresholds == { FormThreshold(t) : t \in ThresholdInputs } \ {NaN, Num(-1), Num(101)}

\* C10: for the probe and event of a successful search and the stored
\* faces as they are, the query returns at every higher threshold no more
\* rows, and at every lower threshold no fewer rows, than the search
\* returned (whatever the order of tied rows, and also under the cap of 50).
C10_Monotone ==
    \A r \in Requests :
        Succeeded(r) =>
            \A t \in ValidThresholds, scan \in ScanOrders :
                LET q == reqs[r]
                    n == Len(SimilarityQuery(q.event_id, q.embedding, t, scan))
                IN /\ q.threshold.val < t.val => n <= Len(ResultsOf(r))
                   /\ t.val < q.threshold.val => n >= Len(ResultsOf(r))

\* a search that returned some results for which a higher threshold gives
\* strictly fewer and a search of the capped event e3
C10_Witness ==
    \E r \in Requests :
        /\ Succeeded(r)
        /\ reqs[r].event_id = "e3"
        /\ reqs[r].threshold = Num(0)
        /\ Len(ResultsOf(r)) = MaxResults
        /\ \E t \in ValidThresholds :
             /\ t.val > 0
             /\ Len(SimilarityQuery("e3", reqs[r].embedding, t, "forward"))
                   \in 1..(MaxResults - 1)

-----------------------------------------------------------------------------
(* Properties of repeated searches and of the audit trail *)

\* two requests with the same event, probe embedding and threshold
SameSearch(r1, r2) ==
    /\ reqs[r1].event_id = reqs[r2].event_id
    /\ reqs[r1].embedding = reqs[r2].embedding
    /\ reqs[r1].threshold = reqs[r2].threshold

\* C11 as stated: two successful searches with the same probe embedding,
\* event and threshold over the same stored faces return the same list of
\* results in the same order, also when scores are tied and when the cap of
\* 50 falls inside a group of tied scores.
C11_RepeatedSearchIdentical ==
    \A r1, r2 \in Requests :
        (Succeeded(r1) /\ Succeeded(r2) /\ SameSearch(r1, r2)) =>
            ResultsOf(r1) = ResultsOf(r2)

\* C12: a search_face request never changes the sets of event, image and face
\* records, whatever its outcome; the only store it writes is the audit log.
C12_PureRead ==
    [][events' = events /\ images' = images /\ faces' = faces]_vars

\* a search that failed and a log entry was written for it
C12_Witness ==
    \E r \in Requests :
        /\ Finished(r) /\ reqs[r].response.status # 200
        /\ Len(logs) > 0
        /\ events = InitEvents /\ images = InitImages /\ faces = InitFaces

\* the request ran every stage: its query returned and the result was assembled
Completed(r) == Finished(r) /\ reqs[r].stages = Pipeline

\* no face of the searched event is above the threshold of the request
NoMatch(r) ==
    Above(reqs[r].event_id, reqs[r].embedding, reqs[r].threshold) = {}

\* the actions of the audit entries a request asked log_action to write
AuditActions(r) == [k \in 1..Len(reqs[r].audit) |-> reqs[r].audit[k].action]

\* C13: a search that passed validation, obtained an embedding and whose query
\* found no face above the threshold is answered as a success with an empty
\* results array and total_matches 0, and the audit entry written for it has
\* action "search_face", not "search_face_failed".
C13_ZeroMatchesIsSuccess ==
    \A r \in Requests :
        (Completed(r) /\ NoMatch(r)) =>
            /\ reqs[r].response.status = 200
            /\ ResultsOf(r) = <<>>
            /\ reqs[r].response.search_params.total_matches = 0
            /\ AuditActions(r) = <<"search_face">>
            /\ \A k \in 1..Len(logs) :
                 logs[k].log_id = reqs[r].audit[1].log_id =>
                     logs[k].action = "search_face"

\* a completed search without a match whose audit entry was stored
C13_Witness ==
    \E r \in Requests :
        /\ Completed(r) /\ NoMatch(r)
        /\ EventFaces(reqs[r].event_id) # {}
        /\ \E k \in 1..Len(logs) : logs[k].log_id = reqs[r].audit[1].log_id

\* the rows of logs written by the log_action calls of a request
EntriesOf(r) ==
    { k \in 1..Len(logs) :
        \E j \in 1..Len(reqs[r].audit) : reqs[r].audit[j].log_id = logs[k].log_id }

\* the audit store accepted every write the request attempted
AuditStoreAccepts(r) ==
    \A j \in 1..Len(reqs[r].audit) : reqs[r].audit[j].inserted

\* C14 as stated: every search attempt, successful or failed on any path,
\* leaves exactly one audit entry when the audit store accepts writes.
C14_OneEntryPerAttempt ==
    \A r \in Requests :
        (Finished(r) /\ AuditStoreAccepts(r)) =>
            Cardinality(EntriesOf(r)) = 1

\* the request called the embedding service and ended in the embedding stage
EmbeddingFailed(r) ==
    /\ Finished(r)
    /\ reqs[r].stages = <<"validate", "embed">>
    /\ reqs[r].ai_calls = 1

\* log_action was called for the request with this action and notify=True
LoggedWithAlert(r, action) ==
    \E j \in 1..Len(reqs[r].audit) :
        reqs[r].audit[j].action = action /\ reqs[r].audit[j].notify

\* C15 as stated: on every failure path of the embedding stage (the call cannot
\* complete, a non-success status, a success status without an embedding field)
\* an audit entry with action "search_face_failed" is written and an alert is
\* requested for it.
C15_EmbeddingFailureLogged ==
    \A r \in Requests :
        EmbeddingFailed(r) => LoggedWithAlert(r, "search_face_failed")

\* the embedding call of the request ran into ClientTimeout(total=30)
TimedOut(r) == Finished(r) /\ reqs[r].ai_reply.kind = "timeout"

\* C16 as stated: a request whose embedding call exceeds the client-side
\* timeout fails with the 503 service-dependency failure, and exactly one audit
\* entry, with action "search_face_failed", is recorded for it.
C16_TimeoutIsUnavailable ==
    \A r \in Requests :
        TimedOut(r) =>
            /\ reqs[r].response.status = 503
            /\ AuditActions(r) = <<"search_face_failed">>
            /\ AuditStoreAccepts(r) => Cardinality(EntriesOf(r)) = 1

\* the request ended because the embedding service was unreachable or answered
\* a non-success status, or because the similarity query raised
DependencyFailed(r) ==
    /\ Finished(r)
    /\ \/ reqs[r].ai_reply.kind = "client_error"
       \/ reqs[r].ai_reply.kind = "response" /\ IsFailureStatus(reqs[r].ai_reply.status)
       \/ reqs[r].stages = <<"validate", "embed", "query">>

\* C17 as stated: every dependency failure of a search (embedding service
\* unreachable, embedding service answering a non-success status, database
\* query failure) is returned as a 5xx failure, never as a 4xx client error,
\* and the failed call is not repeated inside the request.
C17_DependencyFailureIs5xx ==
    \A r \in Requests :
        DependencyFailed(r) =>
            /\ reqs[r].response.status \in 500..599
            /\ reqs[r].ai_calls <= 1
            /\ reqs[r].queries <= 1

\* two requests that received the same inputs and the same answers from the
\* embedding service and the database, and made the same log_action calls
SameRun(r1, r2) ==
    /\ reqs[r1].file = reqs[r2].file
    /\ reqs[r1].event_id = reqs[r2].event_id
    /\ reqs[r1].threshold = reqs[r2].threshold
    /\ reqs[r1].ai_reply = reqs[r2].ai_reply
    /\ reqs[r1].results = reqs[r2].results
    /\ reqs[r1].stages = reqs[r2].stages
    /\ AuditActions(r1) = AuditActions(r2)

\* some log_action call of the request had this publish outcome
Publish(r, outcome) ==
    \E j \in 1..Len(reqs[r].audit) : reqs[r].audit[j].publish = outcome

\* C18: of two requests that ran alike and logged an action with notification
\* requested, one whose alert publish raised and one whose publish succeeded,
\* both get the same response.
C18_PublishFailureKeepsResponse ==
    \A r1, r2 \in Requests :
        (/\ Finished(r1) /\ Finished(r2) /\ SameRun(r1, r2)
         /\ Publish(r1, "failed") /\ Publish(r2, "ok")) =>
            reqs[r1].response = reqs[r2].response

\* a failed search whose alert publish raised next to one whose publish went out
C18_Witness ==
    \E r1, r2 \in Requests :
        /\ Finished(r1) /\ Finished(r2) /\ SameRun(r1, r2)
        /\ Publish(r1, "failed") /\ Publish(r2, "ok")
        /\ reqs[r1].response.status = 503
        /\ published # {}

\* C19 as stated: whenever the alert publish of a logged action fails, a
\* secondary entry with action "sns_notification_error" and notification flag
\* false is appended to the log store, next to the entry of the action itself.
C19_PublishFailureLogged ==
    \A r \in Requests :
        (Finished(r) /\ Publish(r, "failed")) =>
            \E k \in 1..Len(logs) :
                /\ logs[k].action = "sns_notification_error"
                /\ ~logs[k].notification_sent

\* some log_action call of the request had its INSERT accepted / refused
Inserted(r, accepted) ==
    \E j \in 1..Len(reqs[r].audit) : reqs[r].audit[j].inserted = accepted

\* C20: of two requests that ran alike, one whose audit INSERT failed and one
\* whose INSERT was accepted, both get the same response: the original error
\* with its status and detail on a failure path, the result on the success
\* path; the failure of the audit write is never what the caller receives.
C20_AuditWriteBestEffort ==
    \A r1, r2 \in Requests :
        (/\ Finished(r1) /\ Finished(r2) /\ SameRun(r1, r2)
         /\ Inserted(r1, FALSE) /\ Inserted(r2, TRUE)) =>
            /\ reqs[r1].response = reqs[r2].response
            /\ reqs[r1].response # InternalServerError

\* a search that failed with its own error although its audit INSERT failed,
\* next to one that ran alike and whose INSERT was accepted
C20_Witness ==
    \E r1, r2 \in Requests :
        /\ Finished(r1) /\ Finished(r2) /\ SameRun(r1, r2)
        /\ Inserted(r1, FALSE) /\ Inserted(r2, TRUE)
        /\ reqs[r1].response.status \in {400, 422, 503}
        /\ EntriesOf(r1) = {} /\ EntriesOf(r2) # {}

-----------------------------------------------------------------------------
(* Properties of the log store *)

\* C21 as stated: an audit entry has its notification-sent flag true only if
\* an alert for that entry was published successfully; an entry whose publish
\* failed, or written while no alert client is configured, has the flag false.
C21_FlagOnlyAfterPublish ==
    \A k \in 1..Len(logs) :
        logs[k].notification_sent => logs[k].log_id \in published

-----------------------------------------------------------------------------
(* Properties of concurrent requests *)

AllFinished == \A r \in Requests : Finished(r)

\* the rows of a query answer are those of the request's own event, probe and
\* threshold, and the response echoes the request's own parameters
OwnAnswer(r) ==
    /\ reqs[r].embedding = reqs[r].ai_reply.embedding
    /\ ReturnedFaceIds(r) \subseteq
           { ToString(f.face_id) :
               f \in Above(reqs[r].event_id, reqs[r].embedding,
                           reqs[r].threshold) }
    /\ Len(ResultsOf(r)) =
           Smaller(MaxResults,
                   Cardinality(Above(reqs[r].event_id, reqs[r].embedding,
                                     reqs[r].threshold)))
    /\ reqs[r].response.search_params.event_id = reqs[r].event_id
    /\ reqs[r].response.search_params.threshold = reqs[r].threshold

\* the part of C22 that holds: under every interleaving a successful search
\* answers from its own probe, threshold and event, and the audit entries of
\* different requests are different rows
C22_Independent ==
    /\ \A r \in Requests : Succeeded(r) => OwnAnswer(r)
    /\ \A r1, r2 \in Requests :
         r1 # r2 => EntriesOf(r1) \cap EntriesOf(r2) = {}

\* C22 as stated: under every interleaving of concurrent search_face requests
\* each request answers independently of the others and writes its own audit
\* entry, so that n requests leave n entries when the audit store accepts
\* writes.
C22_ConcurrentSearchesIndependent ==
    /\ C22_Independent
    /\ (AllFinished /\ \A r \in Requests : AuditStoreAccepts(r)) =>
           Len(logs) = Cardinality(Requests)

\* C23 as stated: under every interleaving of search_face with delete_event,
\* a search issues its similarity query, and returns a success response, only
\* for an event that exists at that moment.
C23_SearchReferencesLiveEvent ==
    [][\A r \in Requests :
         /\ (reqs[r].pc = "querying" /\ reqs'[r].pc # "querying")
               => reqs[r].event_id \in events
         /\ (reqs[r].pc # "done" /\ reqs'[r].pc = "done"
                /\ reqs'[r].response.status = 200)
               => reqs[r].event_id \in events]_vars

-----------------------------------------------------------------------------
(* Properties of the connection pool *)

PoolRequests == {1, 2}

\* request r holds a pooled connection
Holds(r) == Conn(r) \in pool.in_use \/ AuthConn(r) \in pool.in_use

\* request r needs a connection and every connection of the pool is in use
Waiting(r) ==
    /\ reqs[r].pc = "idle"
    /\ reqs[r].auth \in {"none", "ok"}
    /\ ~Free

\* C24: a request that needs a connection while all connections of the pool
\* are in use does not fail; it waits, and it eventually obtains a connection
\* once a request in flight has given its connection back.
C24_WaitingObtainsConnection ==
    \A r \in PoolRequests : Waiting(r) ~> Holds(r)

\* an authenticated request waits at the entry of the handler while the other
\* request holds the only connection in its handler
C24_Witness ==
    \E r1, r2 \in Requests :
        /\ r1 # r2
        /\ Waiting(r1) /\ reqs[r1].auth = "ok"
        /\ Conn(r2) \in pool.in_use
        /\ reqs[r2].pc = "embedding"

\* C25: the connection a search_face request acquires is given back on every
\* exit path: a finished request holds none, after all requests have finished
\* none is in use, and the number in use never exceeds max_size, itself at
\* most 10.
C25_ConnectionsReleased ==
    /\ Cardinality(pool.in_use) <= pool.max_size
    /\ pool.max_size <= MaxSize
    /\ \A r \in Requests : Finished(r) => ~Holds(r)
    /\ AllFinished => pool.in_use = {}

\* one request was rejected by a validation check and the other answered, and
\* no connection is in use
C25_Witness ==
    \E r1, r2 \in Requests :
        /\ Finished(r1) /\ reqs[r1].response.status = 400
        /\ reqs[r1].stages = <<"validate">>
        /\ Succeeded(r2)
        /\ pool.in_use = {}

-----------------------------------------------------------------------------
(* Properties of the response payload and of the log rows *)

\* C26: in a success response total_matches is the number of entries of the
\* results array, the echoed event_id and threshold are those of the request,
\* and the result_count of the "search_face" audit entry of that search is
\* the same number.
C26_CountsAgree ==
    \A r \in Requests :
        Succeeded(r) =>
            LET p == reqs[r].response.search_params IN
            /\ p.total_matches = Len(ResultsOf(r))
            /\ p.event_id = reqs[r].event_id
            /\ p.threshold = reqs[r].threshold
            /\ \A k \in EntriesOf(r) :
                 /\ logs[k].action = "search_face"
                 /\ logs[k].details.result_count = Len(ResultsOf(r))
                 /\ logs[k].details.event_id = reqs[r].event_id

\* a search capped at 50 results whose audit entry was stored
C26_Witness ==
    \E r \in Requests :
        /\ Succeeded(r)
        /\ Len(ResultsOf(r)) = MaxResults
        /\ EntriesOf(r) # {}

\* a row of logs without its notification-sent flag
Unflagged(row) ==
    [log_id |-> row.log_id, user_id |-> row.user_id, action |-> row.action,
     details |-> row.details]

\* C27: the pipeline only appends to the audit log: no step removes an entry
\* or changes a field of an existing entry other than its notification-sent
\* flag, so the number of entries never decreases.
C27_AppendOnly ==
    [][/\ Len(logs') >= Len(logs)
       /\ \A k \in 1..Len(logs) : Unflagged(logs'[k]) = Unflagged(logs[k])]_vars

\* two requests have each left an entry, one of them with an alert published
C27_Witness ==
    /\ Len(logs) = 2
    /\ logs[1].log_id # logs[2].log_id
    /\ published # {}

-----------------------------------------------------------------------------
(* Properties of the order of the validation checks *)

\* C28: of several violated validation rules the first in the order media
\* type, threshold, event existence is the one reported; a request with an
\* invalid media type or an out-of-range threshold is rejected without any
\* event lookup in the database.
C28_FirstFailingCheck ==
    \A r \in Requests :
        LET ct == reqs[r].file.content_type
            t == reqs[r].threshold
        IN /\ (reqs[r].pc # "idle" /\ ~DenotesImage(ct)) =>
                /\ reqs[r].lookups = 0
                /\ Finished(r) => reqs[r].response = InvalidMediaType
           /\ (reqs[r].pc # "idle" /\ DenotesImage(ct) /\ BelowZeroOrAboveOne(t)) =>
                /\ reqs[r].lookups = 0
                /\ Finished(r) => reqs[r].response = InvalidThreshold
           /\ (Finished(r) /\ reqs[r].response = EventNotFound) =>
                /\ DenotesImage(ct) /\ ~BelowZeroOrAboveOne(t)
                /\ reqs[r].lookups = 1

\* an image upload with threshold 1.01 for an unknown event was rejected for
\* its threshold, without an event lookup
C28_Witness ==
    \E r \in Requests :
        /\ Finished(r)
        /\ DenotesImage(reqs[r].file.content_type)
        /\ reqs[r].threshold = Num(101)
        /\ reqs[r].event_id \notin events
        /\ reqs[r].response = InvalidThreshold
        /\ reqs[r].lookups = 0

-----------------------------------------------------------------------------
(* Properties of payments and of orders *)

\* the calls of the payment service for an order that succeeded
Charges(order_id) ==
    { c \in shop.gateway : c.order_id = order_id /\ c.result = "success" }

\* C29 as stated: under every interleaving of process_order_payment requests
\* the payment service is called for an order only while the order is
\* 'pending', at most one call succeeds, the order is moved to 'paid' at most
\* once, and a request answered 404 has not called the payment service.
C29_ChargedAtMostOnce ==
    /\ \A c \in shop.gateway : c.order_status = "pending"
    /\ \A o \in PayOrderIds :
         /\ Cardinality(Charges(o)) <= 1
         /\ Cardinality({ u \in shop.paid_updates : u.order_id = o }) <= 1
    /\ \A p \in DOMAIN pays :
         (pays[p].pc = "done" /\ pays[p].response.status = 404) =>
             \A c \in shop.gateway : c.request # p

\* the orders made from a cart session
OrdersOf(session_id) == { o \in shop.orders : o.cart_session = session_id }

\* C30 as stated: under every interleaving of create_order requests a cart
\* session is converted into at most one order, and a session for which
\* create_order has succeeded is inactive with status 'converted'.
C30_OneOrderPerSession ==
    /\ \A sid \in CreateSessionIds : Cardinality(OrdersOf(sid)) <= 1
    /\ \A c \in DOMAIN creates :
         (creates[c].pc = "done" /\ creates[c].response.status = 200) =>
             \A cs \in shop.cart_sessions :
                 cs.session_id = creates[c].session_id =>
                     ~cs.is_active /\ cs.status = "converted"

====
